---- MODULE Spec2Model ----
(***************************************************************************)
(* A model of the sentimentbayes repository: the multinomial Naive Bayes   *)
(* classifier of package sentiment (Train, TrainBatch, Reset, Predict,     *)
(* Evaluate, Snapshot, LoadSnapshot), the CSV loader of package dataset,   *)
(* and the command-line driver of package main.                            *)
(*                                                                         *)
(* A Go map is a record [nil, kv]: nil tells a nil map from an empty one   *)
(* (reads of a nil map yield the zero value, writes to it panic), kv is    *)
(* the finite function from its keys to its values.  A text is a sequence  *)
(* of one-character strings and a token is a non-empty sequence of         *)
(* lower-case letters and digits.  exp(logProb) is kept as an exact        *)
(* fraction n/d (inf when a term divides by zero); float64 rounding is not *)
(* modelled.                                                               *)
(***************************************************************************)
EXTENDS Integers, Sequences, FiniteSets, TLC

(* ------------------------------ bounds -------------------------------- *)

\* Cap on totalDocs: Train and TrainBatch are disabled beyond it.
MaxDocs == 3

\* Longest batch handed to TrainBatch and longest test set handed to Evaluate.
MaxBatch == 2

\* The /classify requests the server handles at the same time.
MaxRequests == 2

(* ------------------------------ inputs -------------------------------- *)

Labels == {"", "positive"}

Texts == { <<>>, <<"a">>, <<"A", "!", "b">> }

Documents == [Text : Texts, Label : Labels]

\* The documents batches and test sets are made of.
SampleDocuments ==
    { [Text |-> <<"a">>, Label |-> "positive"],
      [Text |-> <<"A", "!", "b">>, Label |-> ""],
      [Text |-> <<>>, Label |-> ""] }

RECURSIVE SeqsUpTo(_, _)
SeqsUpTo(S, n) ==
    IF n = 0 THEN { <<>> }
    ELSE LET shorter == SeqsUpTo(S, n - 1)
         IN  shorter \cup { Append(s, x) : s \in { t \in shorter : Len(t) = n - 1 }, x \in S }

\* Every ordering of a finite set: the orders in which range may visit a map's keys.
RECURSIVE Orders(_)
Orders(S) ==
    IF S = {} THEN { <<>> }
    ELSE UNION { { <<x>> \o rest : rest \in Orders(S \ {x}) } : x \in S }

Batches == SeqsUpTo(SampleDocuments, MaxBatch)

(* --------------------------- characters ------------------------------- *)

CharCode(c) ==
    CASE c = " " -> 32
      [] c = "!" -> 33
      [] c = "A" -> 65
      [] c = "a" -> 97
      [] c = "b" -> 98

CharOf(n) ==
    CASE n = 32 -> " "
      [] n = 33 -> "!"
      [] n = 65 -> "A"
      [] n = 97 -> "a"
      [] n = 98 -> "b"

IsUpper(c) == CharCode(c) >= 65 /\ CharCode(c) <= 90

IsLetter(c) == IsUpper(c) \/ (CharCode(c) >= 97 /\ CharCode(c) <= 122)

IsNumber(c) == CharCode(c) >= 48 /\ CharCode(c) <= 57

ToLower(text) ==
    [i \in 1..Len(text) |-> IF IsUpper(text[i]) THEN CharOf(CharCode(text[i]) + 32) ELSE text[i]]

IsSeparator(c) == ~IsLetter(c) /\ ~IsNumber(c)

\* strings.FieldsFunc: the maximal runs of non-separators, in order; no empty field.
RECURSIVE FieldsFunc(_, _, _, _)
FieldsFunc(s, i, cur, acc) ==
    IF i > Len(s) THEN (IF cur = <<>> THEN acc ELSE Append(acc, cur))
    ELSE IF IsSeparator(s[i])
         THEN FieldsFunc(s, i + 1, <<>>, IF cur = <<>> THEN acc ELSE Append(acc, cur))
         ELSE FieldsFunc(s, i + 1, Append(cur, s[i]), acc)

tokenize(text) == FieldsFunc(ToLower(text), 1, <<>>, <<>>)

\* Lexicographic order of strings by code point, as sort.Strings compares them.
RECURSIVE StringLess(_, _)
StringLess(a, b) ==
    IF a = <<>> THEN b # <<>>
    ELSE IF b = <<>> THEN FALSE
    ELSE IF CharCode(Head(a)) # CharCode(Head(b)) THEN CharCode(Head(a)) < CharCode(Head(b))
    ELSE StringLess(Tail(a), Tail(b))

RECURSIVE SortStrings(_)
SortStrings(S) ==
    IF S = {} THEN <<>>
    ELSE LET least == CHOOSE x \in S : \A y \in S \ {x} : StringLess(x, y)
         IN  <<least>> \o SortStrings(S \ {least})

(* ------------------------------ Go maps ------------------------------- *)

EmptyKV == [k \in {} |-> 0]

MakeMap == [nil |-> FALSE, kv |-> EmptyKV]

NilMap == [nil |-> TRUE, kv |-> EmptyKV]

Keys(m) == DOMAIN m.kv

HasKey(m, k) == k \in DOMAIN m.kv

\* m[k] read with the zero value zero for a missing key (also of a nil map).
MapGet(m, k, zero) == IF k \in DOMAIN m.kv THEN m.kv[k] ELSE zero

\* A read that inserts the zero value for a missing key, as a defaulting container does.
MapAfterGetInserting(m, k, zero) ==
    IF k \in DOMAIN m.kv THEN m
    ELSE [nil |-> FALSE, kv |-> [x \in (DOMAIN m.kv) \cup {k} |-> IF x = k THEN zero ELSE m.kv[x]]]

\* The map after the read m[k]: an index expression inserts no entry.
MapAfterGet(m, k, zero) == m

\* m[k] = v on a non-nil map.
MapPut(m, k, v) ==
    [nil |-> FALSE, kv |-> [x \in (DOMAIN m.kv) \cup {k} |-> IF x = k THEN v ELSE m.kv[x]]]

RECURSIVE SumOver(_, _)
SumOver(f, S) ==
    IF S = {} THEN 0
    ELSE LET x == CHOOSE y \in S : TRUE IN f[x] + SumOver(f, S \ {x})

MapSum(m) == SumOver(m.kv, DOMAIN m.kv)

(* ----------------------------- classifier ----------------------------- *)

NewNaiveBayesClassifier ==
    [classDocCounts  |-> MakeMap,
     classWordCounts |-> MakeMap,
     classTotalWords |-> MakeMap,
     vocabulary      |-> {},
     totalDocs       |-> 0]

Reset(nb) ==
    [classDocCounts  |-> MakeMap,
     classWordCounts |-> MakeMap,
     classTotalWords |-> MakeMap,
     vocabulary      |-> {},
     totalDocs       |-> 0]

\* Train's token loop counting a class's distinct tokens instead of its occurrences.
TrainTokenDistinct(nb, label, token) ==
    LET inner == MapGet(nb.classWordCounts, label, NilMap)
        seen == HasKey(inner, token)
        withVocab == [nb EXCEPT !.vocabulary = @ \cup {token}]
        withWord == [withVocab EXCEPT !.classWordCounts =
                        MapPut(@, label, MapPut(inner, token, MapGet(inner, token, 0) + 1))]
        withTotal == [withWord EXCEPT !.classTotalWords =
                        MapPut(@, label, MapGet(@, label, 0) + (IF seen THEN 0 ELSE 1))]
    IN  IF token = <<>> THEN [nb |-> nb, panic |-> FALSE]
        ELSE IF inner.nil THEN [nb |-> withVocab, panic |-> TRUE]
        ELSE IF nb.classTotalWords.nil THEN [nb |-> withWord, panic |-> TRUE]
        ELSE [nb |-> withTotal, panic |-> FALSE]

\* One iteration of Train's token loop; [nb, panic] with the state a panic leaves.
TrainToken(nb, label, token) ==
    LET withVocab == [nb EXCEPT !.vocabulary = @ \cup {token}]
        inner == MapGet(nb.classWordCounts, label, NilMap)
        withWord == [withVocab EXCEPT !.classWordCounts =
                        MapPut(@, label, MapPut(inner, token, MapGet(inner, token, 0) + 1))]
        withTotal == [withWord EXCEPT !.classTotalWords =
                        MapPut(@, label, MapGet(@, label, 0) + 1)]
    IN  IF token = <<>> THEN [nb |-> nb, panic |-> FALSE]
        ELSE IF inner.nil THEN [nb |-> withVocab, panic |-> TRUE]
        ELSE IF nb.classTotalWords.nil THEN [nb |-> withWord, panic |-> TRUE]
        ELSE [nb |-> withTotal, panic |-> FALSE]

RECURSIVE TrainTokens(_, _, _)
TrainTokens(nb, label, tokens) ==
    IF tokens = <<>> THEN [nb |-> nb, panic |-> FALSE]
    ELSE LET step == TrainToken(nb, label, Head(tokens))
         IN  IF step.panic THEN step ELSE TrainTokens(step.nb, label, Tail(tokens))

\* Counting with classDocCounts[label] = 1 in place of classDocCounts[label]++.
CountDocumentAssigning(nb, label) ==
    LET counted == [nb EXCEPT !.totalDocs = @ + 1]
    IN  IF nb.classDocCounts.nil THEN [nb |-> counted, panic |-> TRUE]
        ELSE [nb |-> [counted EXCEPT !.classDocCounts = MapPut(@, label, 1)], panic |-> FALSE]

\* Train's unconditional counting of the document (totalDocs++, classDocCounts[label]++).
CountDocument(nb, label) ==
    LET counted == [nb EXCEPT !.totalDocs = @ + 1]
    IN  IF nb.classDocCounts.nil THEN [nb |-> counted, panic |-> TRUE]
        ELSE [nb |-> [counted EXCEPT !.classDocCounts = MapPut(@, label, MapGet(@, label, 0) + 1)],
              panic |-> FALSE]

\* Train's creation of classWordCounts[label] when the key is missing.
EnsureWordMap(nb, label) ==
    IF HasKey(nb.classWordCounts, label) THEN [nb |-> nb, panic |-> FALSE]
    ELSE IF nb.classWordCounts.nil THEN [nb |-> nb, panic |-> TRUE]
    ELSE [nb |-> [nb EXCEPT !.classWordCounts = MapPut(@, label, MakeMap)], panic |-> FALSE]

\* A Train that returns early, counting nothing, when the text yields no token.
TrainSkippingEmpty(nb, text, label) ==
    LET counted == CountDocument(nb, label)
        ensured == EnsureWordMap(counted.nb, label)
    IN  IF tokenize(text) = <<>> THEN [nb |-> nb, panic |-> FALSE]
        ELSE IF counted.panic THEN counted
        ELSE IF ensured.panic THEN ensured
        ELSE TrainTokens(ensured.nb, label, tokenize(text))

Train(nb, text, label) ==
    LET counted == CountDocument(nb, label)
        ensured == EnsureWordMap(counted.nb, label)
    IN  IF counted.panic THEN counted
        ELSE IF ensured.panic THEN ensured
        ELSE TrainTokens(ensured.nb, label, tokenize(text))

\* TrainBatch's loop: Train on every document, in order.
RECURSIVE TrainEach(_, _)
TrainEach(nb, batch) ==
    IF batch = <<>> THEN [nb |-> nb, panic |-> FALSE]
    ELSE LET step == Train(nb, Head(batch).Text, Head(batch).Label)
         IN  IF step.panic THEN step ELSE TrainEach(step.nb, Tail(batch))

\* A TrainBatch that retrains from scratch: it resets before it trains.
TrainBatchFromScratch(nb, batch) == TrainEach(Reset(nb), batch)

TrainBatch(nb, batch) == TrainEach(nb, batch)

(* ----------------------------- prediction ----------------------------- *)

RECURSIVE GCD(_, _)
GCD(a, b) == IF b = 0 THEN a ELSE GCD(b, a % b)

\* The fraction n/d in lowest terms; NaN is 0/0.
Frac(n, d) == IF n = 0 /\ d = 0 THEN [n |-> 0, d |-> 0]
              ELSE [n |-> n \div GCD(n, d), d |-> d \div GCD(n, d)]

NaN == [n |-> 0, d |-> 0]

\* exp of a log-score: inf for +Inf, else the fraction n/d; exp(-Inf) is 0/1.
NegInf == [inf |-> FALSE, n |-> 0, d |-> 1]

\* exp(logProb + math.Log(n / d)) for n > 0: a division by zero gives +Inf.
AddLog(score, n, d) ==
    IF score.inf \/ d = 0 THEN [inf |-> TRUE, n |-> 1, d |-> 0]
    ELSE LET f == Frac(score.n * n, score.d * d) IN [inf |-> FALSE, n |-> f.n, d |-> f.d]

\* logProb > bestScore
ScoreGreater(a, b) ==
    IF a.inf THEN ~b.inf
    ELSE IF b.inf THEN FALSE
    ELSE a.n * b.d > b.n * a.d

\* The inner loop of Predict for one class: the score and the model after its reads.
RECURSIVE ScoreTokens(_, _, _, _, _)
ScoreTokens(nb, class, tokens, totalWords, logProb) ==
    IF tokens = <<>> THEN [nb |-> nb, logProb |-> logProb]
    ELSE IF Head(tokens) = <<>> THEN ScoreTokens(nb, class, Tail(tokens), totalWords, logProb)
    ELSE LET token == Head(tokens)
             inner == MapGet(nb.classWordCounts, class, NilMap)
             outerAfter == MapAfterGet(nb.classWordCounts, class, NilMap)
             wordCount == MapGet(inner, token, 0)
             innerAfter == MapAfterGet(MapGet(outerAfter, class, NilMap), token, 0)
             after == [nb EXCEPT !.classWordCounts =
                          IF HasKey(outerAfter, class)
                          THEN [outerAfter EXCEPT !.kv[class] = innerAfter]
                          ELSE outerAfter]
         IN  ScoreTokens(after, class, Tail(tokens), totalWords,
                         AddLog(logProb, wordCount + 1, totalWords + Cardinality(nb.vocabulary)))

\* Predict's loop over the classes in the order range visits them.
RECURSIVE PredictLoop(_, _, _, _, _, _)
PredictLoop(nb, tokens, order, scores, bestLabel, bestScore) ==
    IF order = <<>>
    THEN [nb |-> nb, scores |-> scores, bestLabel |-> bestLabel, bestScore |-> bestScore]
    ELSE LET class == Head(order)
             docCount == MapGet(nb.classDocCounts, class, 0)
             prior == AddLog([inf |-> FALSE, n |-> 1, d |-> 1], docCount, nb.totalDocs)
             totalWords == MapGet(nb.classTotalWords, class, 0)
             read == [nb EXCEPT !.classTotalWords = MapAfterGet(@, class, 0)]
             scored == ScoreTokens(read, class, tokens, totalWords, prior)
             logProb == scored.logProb
             better == ScoreGreater(logProb, bestScore)
         IN  IF docCount = 0
             THEN PredictLoop(nb, tokens, Tail(order), scores, bestLabel, bestScore)
             ELSE PredictLoop(scored.nb, tokens, Tail(order),
                              [c \in (DOMAIN scores) \cup {class} |->
                                  IF c = class THEN logProb ELSE scores[c]],
                              IF better THEN class ELSE bestLabel,
                              IF better THEN logProb ELSE bestScore)

\* exp(logProb - bestScore) as a fraction: Inf - Inf is NaN, finite - Inf is -Inf.
ExpDiff(logProb, bestScore) ==
    IF bestScore.inf THEN (IF logProb.inf THEN NaN ELSE Frac(0, 1))
    ELSE Frac(logProb.n * bestScore.d, logProb.d * bestScore.n)

FracAdd(a, b) == IF a = NaN \/ b = NaN THEN NaN ELSE Frac(a.n * b.d + b.n * a.d, a.d * b.d)

FracDiv(a, b) == IF a = NaN \/ b = NaN THEN NaN ELSE Frac(a.n * b.d, a.d * b.n)

RECURSIVE FracSum(_, _)
FracSum(f, S) ==
    IF S = {} THEN Frac(0, 1)
    ELSE LET x == CHOOSE y \in S : TRUE IN FracAdd(f[x], FracSum(f, S \ {x}))

normalizeScores(scores, bestScore) ==
    LET normalized == [c \in DOMAIN scores |-> ExpDiff(scores[c], bestScore)]
        sum == FracSum(normalized, DOMAIN scores)
    IN  IF DOMAIN scores = {} THEN EmptyKV
        ELSE IF sum = Frac(0, 1) THEN normalized
        ELSE [c \in DOMAIN scores |-> FracDiv(normalized[c], sum)]

\* Predict(text) with the classes of classDocCounts visited in the given order:
\* the label, the distribution, and the model as the call leaves it.
Predict(nb, text, order) ==
    LET loop == PredictLoop(nb, tokenize(text), order, EmptyKV, "", NegInf)
    IN  [label |-> loop.bestLabel,
         probs |-> normalizeScores(loop.scores, loop.bestScore),
         nb    |-> loop.nb]

(* ----------------------------- evaluation ----------------------------- *)

\* confusion[actual][predicted] = 1 in place of confusion[actual][predicted]++.
RecordOverwriting(confusion, actual, predicted) ==
    LET row == IF actual \in DOMAIN confusion THEN confusion[actual] ELSE EmptyKV
        newRow == [p \in (DOMAIN row) \cup {predicted} |-> IF p = predicted THEN 1 ELSE row[p]]
    IN  [a \in (DOMAIN confusion) \cup {actual} |-> IF a = actual THEN newRow ELSE confusion[a]]

\* confusion[actual][predicted]++, creating the row when it is missing.
Record(confusion, actual, predicted) ==
    LET row == IF actual \in DOMAIN confusion THEN confusion[actual] ELSE EmptyKV
        newRow == [p \in (DOMAIN row) \cup {predicted} |->
                      IF p = predicted THEN (IF p \in DOMAIN row THEN row[p] ELSE 0) + 1
                      ELSE row[p]]
    IN  [a \in (DOMAIN confusion) \cup {actual} |-> IF a = actual THEN newRow ELSE confusion[a]]

\* Evaluate's loop; orders[i] is the order in which the i-th Predict visits the classes.
RECURSIVE EvaluateLoop(_, _, _, _, _)
EvaluateLoop(nb, docs, orders, correct, confusion) ==
    IF docs = <<>> THEN [nb |-> nb, correct |-> correct, confusion |-> confusion]
    ELSE LET doc == Head(docs)
             p == Predict(nb, doc.Text, Head(orders))
         IN  EvaluateLoop(p.nb, Tail(docs), Tail(orders),
                          IF p.label = doc.Label THEN correct + 1 ELSE correct,
                          Record(confusion, doc.Label, p.label))

Evaluate(nb, docs, orders) ==
    LET loop == EvaluateLoop(nb, docs, orders, 0, EmptyKV)
    IN  [metrics |-> [Total |-> Len(docs), Correct |-> loop.correct, Confusion |-> loop.confusion],
         nb |-> loop.nb]

\* Metrics.Accuracy as the fraction Correct/Total, 0 when Total is 0.
Accuracy(m) == IF m.Total = 0 THEN Frac(0, 1) ELSE Frac(m.Correct, m.Total)

(* ------------------------------ snapshots ----------------------------- *)

copyIntMap(src) ==
    IF src.nil THEN NilMap
    ELSE [nil |-> FALSE, kv |-> [k \in DOMAIN src.kv |-> src.kv[k]]]

copyNestedMap(src) ==
    IF src.nil THEN NilMap
    ELSE [nil |-> FALSE, kv |-> [k \in DOMAIN src.kv |-> copyIntMap(src.kv[k])]]

Snapshot(nb) ==
    [ClassDocCounts  |-> copyIntMap(nb.classDocCounts),
     ClassWordCounts |-> copyNestedMap(nb.classWordCounts),
     ClassTotalWords |-> copyIntMap(nb.classTotalWords),
     Vocabulary      |-> SortStrings(nb.vocabulary),
     TotalDocs       |-> nb.totalDocs]

\* A LoadSnapshot that adds the snapshot's vocabulary to the one already there.
LoadSnapshotMerging(nb, snapshot) ==
    [classDocCounts  |-> copyIntMap(snapshot.ClassDocCounts),
     classWordCounts |-> copyNestedMap(snapshot.ClassWordCounts),
     classTotalWords |-> copyIntMap(snapshot.ClassTotalWords),
     vocabulary      |-> nb.vocabulary \cup { snapshot.Vocabulary[i] : i \in 1..Len(snapshot.Vocabulary) },
     totalDocs       |-> snapshot.TotalDocs]

LoadSnapshot(nb, snapshot) ==
    [classDocCounts  |-> copyIntMap(snapshot.ClassDocCounts),
     classWordCounts |-> copyNestedMap(snapshot.ClassWordCounts),
     classTotalWords |-> copyIntMap(snapshot.ClassTotalWords),
     vocabulary      |-> { snapshot.Vocabulary[i] : i \in 1..Len(snapshot.Vocabulary) },
     totalDocs       |-> snapshot.TotalDocs]

(* ------------------------------- state -------------------------------- *)

VARIABLES
    nb,             \* the classifier: classDocCounts, classWordCounts, classTotalWords, vocabulary, totalDocs
    panicked,       \* a call panicked (assignment to entry in nil map); the process is gone
    lastOp,         \* the last call on the classifier, with its arguments
    ret,            \* what that call returned
    pc,             \* where the command-line driver is
    flags,          \* the command line and the files it names
    docs,           \* main's docs
    snapshotLoaded, \* main's snapshotLoaded
    log,            \* what the driver logged
    performed,      \* the classifier work the driver has carried out so far
    handlers        \* the goroutines the HTTP server runs the /classify handler in

vars == <<nb, panicked, lastOp, ret, pc, flags, docs, snapshotLoaded, log, performed, handlers>>

\* The goroutines net/http serves connections in, none of them serving a request.
Handlers == 1..MaxRequests

IdleHandler == [pc |-> "idle"]

NoRet == [kind |-> "none"]

NoFlags == [mode |-> "library"]

InitClassifier ==
    /\ nb = NewNaiveBayesClassifier
    /\ panicked = FALSE
    /\ lastOp = [op |-> "NewNaiveBayesClassifier"]
    /\ ret = NoRet
    /\ handlers = [h \in Handlers |-> IdleHandler]

Init ==
    /\ InitClassifier
    /\ pc = "library"
    /\ flags = NoFlags
    /\ docs = <<>>
    /\ snapshotLoaded = FALSE
    /\ log = {}
    /\ performed = {}

(* ----------------------- calls on the classifier ---------------------- *)

\* The models another classifier can be in after training from empty: the sources of
\* the snapshots LoadSnapshot is given.
Models == { TrainBatch(NewNaiveBayesClassifier, b).nb : b \in SeqsUpTo(Documents, MaxDocs) }

\* The test sets handed to Evaluate.
TestSets ==
    { <<>>,
      << [Text |-> <<"a">>, Label |-> "positive"] >>,
      << [Text |-> <<"a">>, Label |-> "positive"], [Text |-> <<"A", "!", "b">>, Label |-> ""] >>,
      << [Text |-> <<>>, Label |-> ""], [Text |-> <<"a">>, Label |-> ""],
         [Text |-> <<"A", "!", "b">>, Label |-> "positive"] >> }

CallTrain(text, label) ==
    /\ pc = "library" /\ ~panicked
    /\ nb.totalDocs < MaxDocs
    /\ LET r == Train(nb, text, label)
       IN  /\ nb' = r.nb
           /\ panicked' = r.panic
    /\ lastOp' = [op |-> "Train", text |-> text, label |-> label]
    /\ ret' = NoRet
    /\ UNCHANGED <<pc, flags, docs, snapshotLoaded, log, performed, handlers>>

CallTrainBatch(batch) ==
    /\ pc = "library" /\ ~panicked
    /\ nb.totalDocs + Len(batch) <= MaxDocs
    /\ LET r == TrainBatch(nb, batch)
       IN  /\ nb' = r.nb
           /\ panicked' = r.panic
    /\ lastOp' = [op |-> "TrainBatch"]
    /\ ret' = NoRet
    /\ UNCHANGED <<pc, flags, docs, snapshotLoaded, log, performed, handlers>>

CallReset ==
    /\ pc = "library" /\ ~panicked
    /\ nb' = Reset(nb)
    /\ lastOp' = [op |-> "Reset"]
    /\ ret' = NoRet
    /\ UNCHANGED <<panicked, pc, flags, docs, snapshotLoaded, log, performed, handlers>>

CallSnapshot ==
    /\ pc = "library" /\ ~panicked
    /\ lastOp' = [op |-> "Snapshot"]
    /\ ret' = [kind |-> "snapshot", snapshot |-> Snapshot(nb)]
    /\ UNCHANGED <<nb, panicked, pc, flags, docs, snapshotLoaded, log, performed, handlers>>

\* LoadSnapshot, into the classifier in whatever state it is, of a given snapshot value.
CallLoadSnapshot(snapshot) ==
    /\ pc = "library" /\ ~panicked
    /\ nb' = LoadSnapshot(nb, snapshot)
    /\ lastOp' = [op |-> "LoadSnapshot", snapshot |-> snapshot]
    /\ ret' = NoRet
    /\ UNCHANGED <<panicked, pc, flags, docs, snapshotLoaded, log, performed, handlers>>

CallPredict(text, order) ==
    /\ pc = "library" /\ ~panicked
    /\ LET r == Predict(nb, text, order)
       IN  /\ nb' = r.nb
           /\ ret' = [kind |-> "prediction", label |-> r.label, probs |-> r.probs]
    /\ lastOp' = [op |-> "Predict", text |-> text]
    /\ UNCHANGED <<panicked, pc, flags, docs, snapshotLoaded, log, performed, handlers>>

CallEvaluate(test, orders) ==
    /\ pc = "library" /\ ~panicked
    /\ LET r == Evaluate(nb, test, orders)
       IN  /\ nb' = r.nb
           /\ ret' = [kind |-> "metrics", metrics |-> r.metrics]
    /\ lastOp' = [op |-> "Evaluate", docs |-> test]
    /\ UNCHANGED <<panicked, pc, flags, docs, snapshotLoaded, log, performed, handlers>>

ClassOrders == Orders(Keys(nb.classDocCounts))

\* Any sequence of calls, LoadSnapshot being given snapshots taken from trained models.
Next ==
    \/ \E text \in Texts, label \in Labels : CallTrain(text, label)
    \/ \E batch \in Batches : CallTrainBatch(batch)
    \/ CallReset
    \/ CallSnapshot
    \/ \E M \in Models : CallLoadSnapshot(Snapshot(M))
    \/ \E text \in Texts : \E order \in ClassOrders : CallPredict(text, order)
    \/ \E test \in TestSets :
         \E orders \in [1..Len(test) -> ClassOrders] : CallEvaluate(test, orders)

Spec == Init /\ [][Next]_vars

\* Snapshot values as json.Unmarshal can produce them from any document: a mapping
\* absent or null (nil), a class with a null word mapping, counts that fit no training.
ArbitrarySnapshots ==
    [ClassDocCounts  : {NilMap, MakeMap, MapPut(MakeMap, "positive", 1)},
     ClassWordCounts : {NilMap, MakeMap, MapPut(MakeMap, "positive", NilMap),
                        MapPut(MakeMap, "positive", MapPut(MakeMap, <<"a">>, 1))},
     ClassTotalWords : {NilMap, MapPut(MakeMap, "positive", 1)},
     Vocabulary      : {<<>>, << <<"a">> >>},
     TotalDocs       : {0, 1}]

\* Any sequence of the mutating calls and Snapshot, LoadSnapshot being given any snapshot value.
NextAny ==
    \/ \E text \in Texts, label \in Labels : CallTrain(text, label)
    \/ \E batch \in Batches : CallTrainBatch(batch)
    \/ CallReset
    \/ CallSnapshot
    \/ \E snapshot \in ArbitrarySnapshots : CallLoadSnapshot(snapshot)

SpecAny == Init /\ [][NextAny]_vars

(* ------------------------------ dataset ------------------------------- *)

\* A CSV file: whether os.Open finds it, and what csv.Reader.Read yields row by row.
\* A row is a read error or a record, given by its number of fields, whether
\* looksLikeHeader holds of it, and its first two fields after strings.TrimSpace.
MalformedRow == [kind |-> "malformed"]

RecordRow(n, header, text, label) ==
    [kind |-> "record", n |-> n, header |-> header, text |-> text, label |-> label]

HeaderRow == RecordRow(2, TRUE, <<"a">>, "label")

DatasetFiles ==
    { [exists |-> FALSE, rows |-> <<>>],
      [exists |-> TRUE, rows |-> <<>>],
      [exists |-> TRUE, rows |-> << RecordRow(2, FALSE, <<"a">>, "Positive") >>],
      [exists |-> TRUE, rows |-> << HeaderRow, RecordRow(2, FALSE, <<"a">>, "Positive"),
                                   RecordRow(2, FALSE, <<"A", "!", "b">>, "negative") >>],
      [exists |-> TRUE, rows |-> << RecordRow(2, FALSE, <<"a">>, "Positive"),
                                   RecordRow(3, FALSE, <<"b">>, "negative") >>],
      [exists |-> TRUE, rows |-> << RecordRow(2, FALSE, <<"a">>, "Positive"), MalformedRow,
                                   RecordRow(2, FALSE, <<"b">>, "negative") >>],
      [exists |-> TRUE, rows |-> << RecordRow(1, FALSE, <<"a">>, ""),
                                   RecordRow(1, FALSE, <<"b">>, "") >>],
      [exists |-> TRUE, rows |-> << RecordRow(2, FALSE, <<>>, "negative"),
                                   RecordRow(2, FALSE, <<"a">>, "") >>] }

\* strings.ToLower on a label.
LowerLabel(label) == IF label = "Positive" THEN "positive" ELSE label

\* LoadCSV's read loop: [docs, err]. fields is the reader's FieldsPerRecord: 0 until the
\* first record sets it, after which Read reports a record of another length as an error.
RECURSIVE ReadRows(_, _, _, _)
ReadRows(rows, row, acc, fields) ==
    IF rows = <<>> THEN [docs |-> acc, err |-> "none"]
    ELSE LET record == Head(rows)
         IN  IF record.kind = "malformed" THEN [docs |-> <<>>, err |-> "read dataset line"]
             ELSE IF fields # 0 /\ record.n # fields THEN [docs |-> <<>>, err |-> "read dataset line"]
             ELSE IF record.n < 2 THEN ReadRows(Tail(rows), row, acc, record.n)
             ELSE IF row = 0 /\ record.header THEN ReadRows(Tail(rows), row + 1, acc, record.n)
             ELSE IF record.text = <<>> \/ record.label = ""
                  THEN ReadRows(Tail(rows), row + 1, acc, record.n)
             ELSE ReadRows(Tail(rows), row + 1,
                           Append(acc, [Text |-> record.text, Label |-> LowerLabel(record.label)]),
                           record.n)

LoadCSV(file) ==
    LET read == ReadRows(file.rows, 0, <<>>, 0)
    IN  IF ~file.exists THEN [docs |-> <<>>, err |-> "open"]
        ELSE IF read.err # "none" THEN read
        ELSE IF read.docs = <<>> THEN [docs |-> <<>>, err |-> "dataset is empty"]
        ELSE read

\* The built-in dataset, cut down to one document per label.
DefaultDataset ==
    << [Text |-> <<"a">>, Label |-> "positive"], [Text |-> <<"b">>, Label |-> "negative"] >>

\* The demo sentences, cut down to two.
DemoSentences == << <<"a">>, <<"A", "!", "b">> >>

\* SplitDataset with the ratio in tenths and the shuffle the seed produces.
SplitDataset(all, tenths, shuffle) ==
    LET n == Len(all)
        ratio == IF tenths <= 0 \/ tenths >= 10 THEN 8 ELSE tenths
        shuffled == [i \in 1..n |-> all[shuffle[i]]]
        rounded == (ratio * n + 5) \div 10
        trainSize == IF rounded <= 0 THEN 1 ELSE IF rounded >= n THEN n - 1 ELSE rounded
    IN  IF n = 0 THEN [train |-> <<>>, test |-> <<>>]
        ELSE IF n = 1 THEN [train |-> all, test |-> <<>>]
        ELSE [train |-> SubSeq(shuffled, 1, trainSize), test |-> SubSeq(shuffled, trainSize + 1, n)]

(* ------------------------------- driver ------------------------------- *)

\* loadDataset: LoadCSV's documents, or on any error a warning and the built-in dataset.
loadDataset(file) ==
    LET loaded == LoadCSV(file)
    IN  IF loaded.err = "none" THEN [docs |-> loaded.docs, warned |-> FALSE]
        ELSE [docs |-> DefaultDataset, warned |-> TRUE]

\* The -load-snapshot file: no path given, a missing file, a document json.Unmarshal
\* rejects, or a document it decodes to a Snapshot ({} decodes to all-nil mappings).
SnapshotFiles ==
    { [kind |-> "none"], [kind |-> "missing"], [kind |-> "malformed"],
      [kind |-> "valid",
       snapshot |-> [ClassDocCounts |-> NilMap, ClassWordCounts |-> NilMap,
                     ClassTotalWords |-> NilMap, Vocabulary |-> <<>>, TotalDocs |-> 0]],
      [kind |-> "valid",
       snapshot |-> Snapshot(Train(NewNaiveBayesClassifier, <<"a">>, "positive").nb)] }

\* A loadSnapshotFromDisk that reports a file it cannot read or decode as "not loaded".
loadSnapshotFromDiskLenient(classifier, file) ==
    IF file.kind = "valid"
    THEN [loaded |-> TRUE, err |-> "none", nb |-> LoadSnapshot(classifier, file.snapshot)]
    ELSE [loaded |-> FALSE, err |-> "none", nb |-> classifier]

loadSnapshotFromDisk(classifier, file) ==
    IF file.kind = "none" THEN [loaded |-> FALSE, err |-> "none", nb |-> classifier]
    ELSE IF file.kind = "missing" THEN [loaded |-> FALSE, err |-> "load snapshot", nb |-> classifier]
    ELSE IF file.kind = "malformed" THEN [loaded |-> FALSE, err |-> "decode snapshot", nb |-> classifier]
    ELSE [loaded |-> TRUE, err |-> "none", nb |-> LoadSnapshot(classifier, file.snapshot)]

\* saveSnapshotIfNeeded: the error it returns, given whether os.WriteFile succeeds.
saveSnapshotIfNeeded(writable) ==
    IF ~flags.saveSnapshot THEN "none"
    ELSE IF ~writable THEN "write snapshot"
    ELSE "none"

Modes == {"demo", "classify", "evaluate", "serve", "train"}

\* The command lines: -text is given or not in classify mode, -split is 0.5 or out of
\* range (1.0) in evaluate mode; elsewhere, where they are not read, they keep their defaults.
Flags ==
    { f \in [mode : Modes, dataset : DatasetFiles, loadSnapshot : SnapshotFiles,
              saveSnapshot : BOOLEAN, continueTraining : BOOLEAN,
              text : { <<>>, <<"a">> }, split : {5, 8, 10}] :
        /\ f.mode # "classify" => f.text = <<>>
        /\ f.mode = "evaluate" <=> f.split # 8 }

InitMain ==
    /\ InitClassifier
    /\ pc = "loadDataset"
    /\ flags \in Flags
    /\ docs = <<>>
    /\ snapshotLoaded = FALSE
    /\ log = {}
    /\ performed = {}

shouldTrain == ~snapshotLoaded \/ flags.continueTraining

\* main, lines 33-36.
MainLoadDataset ==
    /\ pc = "loadDataset"
    /\ LET loaded == loadDataset(flags.dataset)
       IN  /\ docs' = loaded.docs
           /\ log' = log \cup (IF loaded.warned THEN {"warning: falling back to built-in dataset"} ELSE {})
                         \cup (IF loaded.docs = <<>> THEN {"fatal: no training data available"} ELSE {})
           /\ pc' = IF loaded.docs = <<>> THEN "fatal" ELSE "loadSnapshot"
    /\ UNCHANGED <<nb, panicked, lastOp, ret, flags, snapshotLoaded, performed, handlers>>

\* main, lines 38-43.
MainLoadSnapshot ==
    /\ pc = "loadSnapshot"
    /\ LET r == loadSnapshotFromDisk(NewNaiveBayesClassifier, flags.loadSnapshot)
       IN  /\ nb' = r.nb
           /\ snapshotLoaded' = r.loaded
           /\ pc' = IF r.err # "none" THEN "fatal" ELSE "run"
           /\ log' = log \cup (IF r.err # "none" THEN {"fatal: " \o r.err} ELSE {})
                         \cup (IF r.loaded THEN {"Loaded snapshot"} ELSE {})
           /\ lastOp' = IF r.loaded THEN [op |-> "LoadSnapshot", snapshot |-> flags.loadSnapshot.snapshot]
                        ELSE lastOp
    /\ UNCHANGED <<panicked, ret, flags, docs, performed, handlers>>

\* The outcome of training (when asked to) and saving: where the run function stands.
TrainAndSave(train, writable) ==
    LET trained == IF train THEN TrainBatch(nb, docs) ELSE [nb |-> nb, panic |-> FALSE]
        err == saveSnapshotIfNeeded(writable)
    IN  [nb |-> trained.nb,
         panic |-> trained.panic,
         err |-> IF trained.panic THEN "none" ELSE err,
         did |-> (IF train THEN {"train"} ELSE {})
                 \cup (IF ~trained.panic /\ flags.saveSnapshot /\ writable THEN {"save"} ELSE {}),
         logged |-> (IF trained.panic THEN {"panic: assignment to entry in nil map"} ELSE {})
                    \cup (IF ~trained.panic /\ err # "none" THEN {"fatal: " \o err} ELSE {})
                    \cup (IF ~trained.panic /\ flags.saveSnapshot /\ writable THEN {"Snapshot saved"} ELSE {})]

\* runDemo.
RunDemo ==
    /\ pc = "run" /\ flags.mode = "demo"
    /\ \E writable \in BOOLEAN : \E ts \in {TrainAndSave(shouldTrain, writable)} :
       \E o1 \in Orders(Keys(ts.nb.classDocCounts)), o2 \in Orders(Keys(ts.nb.classDocCounts)) :
       \E p1 \in {Predict(ts.nb, DemoSentences[1], o1)} :
       \E p2 \in {Predict(p1.nb, DemoSentences[2], o2)} :
       LET stopped == ts.panic \/ ts.err # "none"
       IN  /\ nb' = IF stopped THEN ts.nb ELSE p2.nb
           /\ panicked' = ts.panic
           /\ pc' = IF ts.panic THEN "panic" ELSE IF ts.err # "none" THEN "fatal" ELSE "exit"
           /\ log' = log \cup ts.logged
           /\ performed' = performed \cup ts.did \cup (IF stopped THEN {} ELSE {"predict"})
           /\ lastOp' = IF stopped THEN [op |-> "TrainBatch"]
                        ELSE [op |-> "Predict", text |-> DemoSentences[2]]
           /\ ret' = IF stopped THEN NoRet
                     ELSE [kind |-> "prediction", label |-> p2.label, probs |-> p2.probs]
    /\ UNCHANGED <<flags, docs, snapshotLoaded, handlers>>

\* runClassifyMode.
RunClassifyMode ==
    /\ pc = "run" /\ flags.mode = "classify"
    /\ \E writable \in BOOLEAN : \E ts \in {TrainAndSave(shouldTrain, writable)} :
       \E order \in Orders(Keys(ts.nb.classDocCounts)) :
       \E p \in {Predict(ts.nb, flags.text, order)} :
       LET noText == flags.text = <<>>
           stopped == noText \/ ts.panic \/ ts.err # "none"
       IN  /\ nb' = IF noText THEN nb ELSE IF stopped THEN ts.nb ELSE p.nb
           /\ panicked' = (~noText /\ ts.panic)
           /\ pc' = IF noText THEN "fatal" ELSE IF ts.panic THEN "panic"
                    ELSE IF ts.err # "none" THEN "fatal" ELSE "exit"
           /\ log' = log \cup (IF noText THEN {"fatal: -text is required in classify mode"} ELSE ts.logged)
           /\ performed' = performed \cup (IF noText THEN {} ELSE ts.did)
                                     \cup (IF stopped THEN {} ELSE {"predict"})
           /\ lastOp' = IF noText THEN lastOp ELSE IF stopped THEN [op |-> "TrainBatch"]
                        ELSE [op |-> "Predict", text |-> flags.text]
           /\ ret' = IF stopped THEN NoRet
                     ELSE [kind |-> "prediction", label |-> p.label, probs |-> p.probs]
    /\ UNCHANGED <<flags, docs, snapshotLoaded, handlers>>

\* runEvaluationMode: shuffle is the permutation the seed yields.
RunEvaluationMode ==
    /\ pc = "run" /\ flags.mode = "evaluate"
    /\ \E shuffle \in Orders(1..Len(docs)) :
       \E split \in {SplitDataset(docs, flags.split, shuffle)} :
       \E trained \in {TrainBatch(Reset(nb), split.train)} :
       \E orders \in [1..Len(split.test) -> Orders(Keys(trained.nb.classDocCounts))] :
       \E e \in {Evaluate(trained.nb, split.test, orders)} :
       LET noTest == split.test = <<>>
       IN  /\ nb' = IF noTest THEN nb ELSE e.nb
           /\ pc' = IF noTest THEN "fatal" ELSE "exit"
           /\ log' = log \cup (IF noTest THEN {"fatal: not enough samples to create a test set"} ELSE {})
           /\ performed' = performed \cup (IF noTest THEN {} ELSE {"reset", "train", "evaluate"})
           /\ lastOp' = IF noTest THEN lastOp ELSE [op |-> "Evaluate", docs |-> split.test]
           /\ ret' = IF noTest THEN ret ELSE [kind |-> "metrics", metrics |-> e.metrics]
    /\ UNCHANGED <<panicked, flags, docs, snapshotLoaded, handlers>>

\* runServerMode up to ListenAndServe, which binds the port or returns its error.
RunServerMode ==
    /\ pc = "run" /\ flags.mode = "serve"
    /\ \E writable \in BOOLEAN, listening \in BOOLEAN :
       \E ts \in {TrainAndSave(shouldTrain, writable)} :
       LET stopped == ts.panic \/ ts.err # "none"
       IN  /\ nb' = ts.nb
           /\ panicked' = ts.panic
           /\ pc' = IF ts.panic THEN "panic" ELSE IF ts.err # "none" \/ ~listening THEN "fatal"
                    ELSE "serving"
           /\ log' = log \cup ts.logged
                         \cup (IF ~stopped /\ ~listening THEN {"fatal: listen"} ELSE {})
                         \cup (IF ~stopped THEN {"Serving sentiment API"} ELSE {})
           /\ performed' = performed \cup ts.did \cup (IF ~stopped /\ listening THEN {"serve"} ELSE {})
           /\ lastOp' = IF shouldTrain THEN [op |-> "TrainBatch"] ELSE lastOp
    /\ UNCHANGED <<ret, flags, docs, snapshotLoaded, handlers>>

\* main's default case: a -mode (here "train") that is none of demo, classify, evaluate, serve.
UnknownMode ==
    /\ pc = "run" /\ flags.mode \notin {"demo", "classify", "evaluate", "serve"}
    /\ pc' = "fatal"
    /\ log' = log \cup {"fatal: unknown mode"}
    /\ UNCHANGED <<nb, panicked, lastOp, ret, flags, docs, snapshotLoaded, performed, handlers>>

\* A request to /classify: its method and its body (invalid JSON, or the text it carries).
Requests ==
    [method : {"GET", "POST"},
     body : { [valid |-> FALSE, text |-> <<>>], [valid |-> TRUE, text |-> <<>>],
              [valid |-> TRUE, text |-> <<"a">>] }]

\* The handler buildRouter registers for /classify.
HandleClassify(request, order) ==
    /\ pc = "serving"
    /\ \E p \in {Predict(nb, request.body.text, order)} :
       LET status == IF request.method # "POST" THEN 405
                     ELSE IF ~request.body.valid THEN 400
                     ELSE IF request.body.text = <<>> THEN 400
                     ELSE 200
       IN  /\ nb' = IF status = 200 THEN p.nb ELSE nb
           /\ lastOp' = IF status = 200 THEN [op |-> "Predict", text |-> request.body.text] ELSE lastOp
           /\ ret' = IF status = 200
                     THEN [kind |-> "response", status |-> status, label |-> p.label, probs |-> p.probs]
                     ELSE [kind |-> "response", status |-> status]
           /\ performed' = performed \cup (IF status = 200 THEN {"predict"} ELSE {})
    /\ UNCHANGED <<panicked, pc, flags, docs, snapshotLoaded, log, handlers>>

NextMain ==
    \/ MainLoadDataset
    \/ MainLoadSnapshot
    \/ RunDemo
    \/ RunClassifyMode
    \/ RunEvaluationMode
    \/ RunServerMode
    \/ UnknownMode
    \/ \E request \in Requests : \E order \in ClassOrders : HandleClassify(request, order)

SpecMain == InitMain /\ [][NextMain]_vars

(* ---------------------- serve mode, step by step ---------------------- *)

\* runServerMode, lines 127-129: the training, when asked to.
ServerTrain ==
    /\ pc = "run" /\ flags.mode = "serve"
    /\ \E trained \in {IF shouldTrain THEN TrainBatch(nb, docs) ELSE [nb |-> nb, panic |-> FALSE]} :
          /\ nb' = trained.nb
          /\ panicked' = trained.panic
          /\ pc' = IF trained.panic THEN "panic" ELSE "save"
          /\ log' = log \cup (IF trained.panic THEN {"panic: assignment to entry in nil map"} ELSE {})
          /\ performed' = performed \cup (IF shouldTrain THEN {"train"} ELSE {})
          /\ lastOp' = IF shouldTrain THEN [op |-> "TrainBatch"] ELSE lastOp
    /\ UNCHANGED <<ret, flags, docs, snapshotLoaded, handlers>>

\* runServerMode, lines 130-132: saveSnapshotIfNeeded.
ServerSave ==
    /\ pc = "save"
    /\ \E writable \in BOOLEAN :
       LET err == saveSnapshotIfNeeded(writable)
           saved == flags.saveSnapshot /\ writable
       IN  /\ pc' = IF err # "none" THEN "fatal" ELSE "listen"
           /\ log' = log \cup (IF err # "none" THEN {"fatal: " \o err} ELSE {})
                         \cup (IF saved THEN {"Snapshot saved"} ELSE {})
           /\ performed' = performed \cup (IF saved THEN {"save"} ELSE {})
    /\ UNCHANGED <<nb, panicked, lastOp, ret, flags, docs, snapshotLoaded, handlers>>

\* runServerMode, lines 133-138: ListenAndServe binds the port and serves, or returns its error.
ServerListen ==
    /\ pc = "listen"
    /\ \E listening \in BOOLEAN :
          /\ pc' = IF listening THEN "serving" ELSE "fatal"
          /\ log' = log \cup {"Serving sentiment API"}
                        \cup (IF listening THEN {} ELSE {"fatal: listen"})
          /\ performed' = performed \cup (IF listening THEN {"serve"} ELSE {})
    /\ UNCHANGED <<nb, panicked, lastOp, ret, flags, docs, snapshotLoaded, handlers>>

\* A /classify handler that learns from the text it is asked to classify.
HandlerCallLearning(classifier, text, order) ==
    Predict(Train(classifier, text, "positive").nb, text, order)

\* The one call the /classify handler makes on the shared classifier.
HandlerCall(classifier, text, order) == Predict(classifier, text, order)

\* The status the handler answers with before it reaches the classifier, or 200.
HandlerStatus(request) ==
    IF request.method # "POST" THEN 405
    ELSE IF ~request.body.valid THEN 400
    ELSE IF request.body.text = <<>> THEN 400
    ELSE 200

\* net/http accepts a request and runs the handler for it in a goroutine of its own.
ServeHTTP(h, request) ==
    /\ pc = "serving"
    /\ handlers[h].pc = "idle"
    /\ handlers' = [handlers EXCEPT ![h] = [pc |-> "accepted", request |-> request]]
    /\ UNCHANGED <<nb, panicked, lastOp, ret, pc, flags, docs, snapshotLoaded, log, performed>>

\* The handler's checks of the method, the body and the text.
HandlerCheck(h) ==
    /\ handlers[h].pc = "accepted"
    /\ LET request == handlers[h].request
           status == HandlerStatus(request)
       IN  handlers' = [handlers EXCEPT ![h] =
                           IF status = 200 THEN [pc |-> "predict", request |-> request]
                           ELSE [pc |-> "responded", request |-> request, status |-> status]]
    /\ UNCHANGED <<nb, panicked, lastOp, ret, pc, flags, docs, snapshotLoaded, log, performed>>

\* The handler enters the classifier: began is the model it finds there.
PredictBegin(h) ==
    /\ handlers[h].pc = "predict"
    /\ handlers' = [handlers EXCEPT ![h] =
                       [pc |-> "scoring", request |-> handlers[h].request, began |-> nb]]
    /\ UNCHANGED <<nb, panicked, lastOp, ret, pc, flags, docs, snapshotLoaded, log, performed>>

\* The handler's call returns and the response is encoded: ended is the model it leaves.
PredictEnd(h, order) ==
    /\ handlers[h].pc = "scoring"
    /\ \E p \in {HandlerCall(nb, handlers[h].request.body.text, order)} :
          /\ nb' = p.nb
          /\ handlers' = [handlers EXCEPT ![h] =
                             [pc |-> "responded", request |-> handlers[h].request,
                              status |-> 200, began |-> handlers[h].began, ended |-> p.nb,
                              order |-> order, label |-> p.label, probs |-> p.probs]]
          /\ lastOp' = [op |-> "Predict", text |-> handlers[h].request.body.text]
          /\ ret' = [kind |-> "response", status |-> 200, label |-> p.label, probs |-> p.probs]
    /\ performed' = performed \cup {"predict"}
    /\ UNCHANGED <<panicked, pc, flags, docs, snapshotLoaded, log>>

\* The handler returns; its goroutine is free for the next request.
HandlerReturn(h) ==
    /\ handlers[h].pc = "responded"
    /\ handlers' = [handlers EXCEPT ![h] = IdleHandler]
    /\ UNCHANGED <<nb, panicked, lastOp, ret, pc, flags, docs, snapshotLoaded, log, performed>>

InitServe == InitMain /\ flags.mode = "serve"

\* A run in serve mode, the handlers of concurrent requests interleaved step by step.
NextServe ==
    \/ MainLoadDataset
    \/ MainLoadSnapshot
    \/ ServerTrain
    \/ ServerSave
    \/ ServerListen
    \/ \E h \in Handlers : \E request \in Requests : ServeHTTP(h, request)
    \/ \E h \in Handlers : HandlerCheck(h)
    \/ \E h \in Handlers : PredictBegin(h)
    \/ \E h \in Handlers : \E order \in ClassOrders : PredictEnd(h, order)
    \/ \E h \in Handlers : HandlerReturn(h)

SpecServe == InitServe /\ [][NextServe]_vars

(* ------------------------------- claims ------------------------------- *)

DocCount(L) == MapGet(nb.classDocCounts, L, 0)

\* C1: Train completes without a panic for every text and label, in every state
\* reachable by NewNaiveBayesClassifier, Train, TrainBatch, Reset, Snapshot and
\* LoadSnapshot of any snapshot value, nil mappings included (SpecAny).
C1_TrainNeverPanics == lastOp.op = "Train" => ~panicked

\* C2: for a fixed model and a fixed text, Predict returns the same label and the same
\* distribution in whatever order the classes of classDocCounts are visited.
C2_PredictDeterministic ==
    \A text \in Texts : \A o1 \in ClassOrders, o2 \in ClassOrders :
        /\ Predict(nb, text, o1).label = Predict(nb, text, o2).label
        /\ Predict(nb, text, o1).probs = Predict(nb, text, o2).probs

\* C3: after T.LoadSnapshot(M.Snapshot()), for M trained from empty and T in any state,
\* T's classDocCounts, classWordCounts, classTotalWords, vocabulary and totalDocs equal
\* M's, nothing of T's earlier state remains, and T and M score every text identically.
C3_SnapshotRoundTrip ==
    lastOp.op = "LoadSnapshot" =>
        \A M \in Models : lastOp.snapshot = Snapshot(M) =>
            /\ nb.classDocCounts = M.classDocCounts
            /\ nb.classWordCounts = M.classWordCounts
            /\ nb.classTotalWords = M.classTotalWords
            /\ nb.vocabulary = M.vocabulary
            /\ nb.totalDocs = M.totalDocs
            /\ \A text \in Texts : \A order \in ClassOrders :
                 /\ Predict(nb, text, order).label = Predict(M, text, order).label
                 /\ Predict(nb, text, order).probs = Predict(M, text, order).probs

\* The loaded snapshot came from a trained model with two classes and two tokens.
C3_Witness ==
    /\ lastOp.op = "LoadSnapshot"
    /\ Cardinality(Keys(nb.classDocCounts)) = 2
    /\ Cardinality(nb.vocabulary) = 2
    /\ nb.totalDocs >= 2

\* Every label stays a key of classDocCounts with a count no smaller, and totalDocs and
\* the vocabulary do not shrink, in the step from the unprimed to the primed state.
NotShrunk ==
    /\ \A L \in Keys(nb.classDocCounts) :
          /\ HasKey(nb'.classDocCounts, L)
          /\ MapGet(nb'.classDocCounts, L, 0) >= MapGet(nb.classDocCounts, L, 0)
    /\ nb'.totalDocs >= nb.totalDocs
    /\ nb.vocabulary \subseteq nb'.vocabulary

\* C4 as stated: Reset is the only call that removes a label or shrinks the model.
C4_OnlyResetShrinks == [][lastOp'.op # "Reset" => NotShrunk]_vars

\* C4 as amended: across Train, TrainBatch and Snapshot (Predict and Evaluate too) a
\* label stays a key and its count never decreases; Reset and LoadSnapshot, which
\* replaces the whole state, are the calls that can remove a label or shrink the model.
C4_OnlyResetOrLoadShrinks == [][lastOp'.op \notin {"Reset", "LoadSnapshot"} => NotShrunk]_vars

\* A TrainBatch has run on a model that holds two labels.
C4_Witness ==
    /\ lastOp.op = "TrainBatch"
    /\ Cardinality(Keys(nb.classDocCounts)) = 2
    /\ nb.totalDocs >= 3

DatasetFailed == LoadCSV(flags.dataset).err # "none"

SnapshotFailed == flags.loadSnapshot.kind \in {"missing", "malformed"}

\* No training, prediction, evaluation or serving has taken place, and the run has
\* neither completed, nor panicked, nor started to serve.
NoWorkDone == performed = {} /\ pc \notin {"exit", "serving", "panic"}

\* C5 as stated: when the dataset file cannot be opened, a CSV row is malformed (or
\* LoadCSV returns any other error), or the snapshot document is missing or malformed,
\* the run ends in a fatal error before any training, prediction, evaluation or serving.
C5_LoadFailuresFatal == (DatasetFailed \/ SnapshotFailed) => NoWorkDone

\* C5 as amended: a missing or malformed snapshot document is fatal: no training,
\* prediction, evaluation or serving takes place and, once past loading, the run is in
\* the fatal state with the error logged. A dataset load failure is not fatal: once
\* past loadDataset the warning is logged and the documents are the built-in dataset.
C5_SnapshotFailuresFatal ==
    /\ SnapshotFailed =>
          /\ NoWorkDone
          /\ pc \in {"loadDataset", "loadSnapshot", "fatal"}
          /\ pc = "fatal" =>
                log \cap {"fatal: load snapshot", "fatal: decode snapshot"} # {}
    /\ (DatasetFailed /\ pc # "loadDataset") =>
          /\ docs = DefaultDataset
          /\ "warning: falling back to built-in dataset" \in log

\* A run whose dataset and snapshot both failed to load: it fell back to the built-in
\* dataset and then ended in the fatal state on the snapshot.
C5_Witness ==
    /\ DatasetFailed /\ SnapshotFailed
    /\ pc = "fatal"
    /\ docs = DefaultDataset
    /\ "fatal: decode snapshot" \in log

\* C6: totalDocs is the sum of classDocCounts over all labels and no count is negative,
\* in every state reached by Train, TrainBatch, Reset and LoadSnapshot of a snapshot
\* taken from a trained classifier.
C6_TotalDocsIsSum ==
    /\ nb.totalDocs = MapSum(nb.classDocCounts)
    /\ \A L \in Keys(nb.classDocCounts) : DocCount(L) >= 0

\* Two labels, one of them trained twice.
C6_Witness ==
    /\ Cardinality(Keys(nb.classDocCounts)) = 2
    /\ \E L \in Keys(nb.classDocCounts) : DocCount(L) >= 2

\* C7: for every trained label L, classTotalWords[L], read as zero when L has no
\* entry, is the sum of classWordCounts[L][t] over all tokens t.
C7_TotalWordsIsSum ==
    \A L \in Keys(nb.classDocCounts) :
        MapGet(nb.classTotalWords, L, 0) = MapSum(MapGet(nb.classWordCounts, L, MakeMap))

\* One label trained only on token-less text (no classTotalWords entry), another whose
\* token was seen twice.
C7_Witness ==
    /\ \E L \in Keys(nb.classDocCounts) : ~HasKey(nb.classTotalWords, L)
    /\ \E L \in Keys(nb.classDocCounts) :
          \E t \in Keys(MapGet(nb.classWordCounts, L, MakeMap)) :
              MapGet(nb.classWordCounts, L, MakeMap).kv[t] >= 2

\* C8: Predict, Evaluate and Snapshot leave all five fields of the classifier as they
\* were, also when a looked-up class or token has no entry.
C8_ReadsDoNotMutate ==
    [][lastOp'.op \in {"Predict", "Evaluate", "Snapshot"} => nb' = nb]_vars

\* A Predict whose text holds a token some class never saw, that class having no
\* classTotalWords entry either.
C8_Witness ==
    /\ lastOp.op = "Predict"
    /\ \E c \in Keys(nb.classDocCounts) :
          /\ ~HasKey(nb.classTotalWords, c)
          /\ \E i \in 1..Len(tokenize(lastOp.text)) :
                ~HasKey(MapGet(nb.classWordCounts, c, NilMap), tokenize(lastOp.text)[i])

\* C9: a Train(text, label) call adds exactly 1 to totalDocs and to
\* classDocCounts[label], also when the text yields no token, leaves the count of every
\* other label as it was, and leaves vocabulary a superset of what it was.
C9_TrainCountsOneDocument ==
    [][lastOp'.op = "Train" =>
          /\ nb'.totalDocs = nb.totalDocs + 1
          /\ MapGet(nb'.classDocCounts, lastOp'.label, 0) = DocCount(lastOp'.label) + 1
          /\ \A L \in Labels \ {lastOp'.label} :
                /\ HasKey(nb'.classDocCounts, L) = HasKey(nb.classDocCounts, L)
                /\ MapGet(nb'.classDocCounts, L, 0) = DocCount(L)
          /\ nb.vocabulary \subseteq nb'.vocabulary]_vars

\* A Train on token-less text of a label trained before.
C9_Witness ==
    /\ lastOp.op = "Train"
    /\ tokenize(lastOp.text) = <<>>
    /\ DocCount(lastOp.label) >= 2
    /\ nb.vocabulary # {}

ConfusionAt(m, actual, predicted) ==
    IF actual \in DOMAIN m.Confusion /\ predicted \in DOMAIN m.Confusion[actual]
    THEN m.Confusion[actual][predicted] ELSE 0

\* Every label a prediction can be: the classes, and "" of the empty model.
Predictable == Labels \cup {""}

ConfusionSum(m) ==
    SumOver([pair \in Predictable \X Predictable |-> ConfusionAt(m, pair[1], pair[2])],
            Predictable \X Predictable)

DiagonalSum(m) == SumOver([L \in Predictable |-> ConfusionAt(m, L, L)], Predictable)

LabelCount(test, L) == Cardinality({ i \in 1..Len(test) : test[i].Label = L })

\* What C10 says of the counts: Total is the number of documents, the confusion entries
\* sum to Total, Correct is the sum of the diagonal, and when Correct = Total only
\* diagonal entries are nonzero, confusion[L][L] being the number of documents labelled L.
MetricsConsistent(m, test) ==
    /\ m.Total = Len(test)
    /\ ConfusionSum(m) = m.Total
    /\ m.Correct = DiagonalSum(m)
    /\ \A a \in DOMAIN m.Confusion : \A p \in DOMAIN m.Confusion[a] : p \in Predictable
    /\ m.Correct = m.Total =>
          /\ \A a \in Predictable, p \in Predictable : a # p => ConfusionAt(m, a, p) = 0
          /\ \A L \in Predictable : ConfusionAt(m, L, L) = LabelCount(test, L)

\* C10 as stated: the counts are consistent and, whenever every document is predicted
\* as its true label, the accuracy is 1.0.
C10_EvaluateConsistent ==
    lastOp.op = "Evaluate" =>
        /\ MetricsConsistent(ret.metrics, lastOp.docs)
        /\ ret.metrics.Correct = ret.metrics.Total => Accuracy(ret.metrics) = Frac(1, 1)

\* C10 as amended: the counts are consistent and, whenever the test set is not empty and
\* every document is predicted as its true label, the accuracy is 1.0; on the empty
\* test set Correct = Total = 0 and Accuracy returns 0.
C10_EvaluateConsistentNonEmpty ==
    lastOp.op = "Evaluate" =>
        /\ MetricsConsistent(ret.metrics, lastOp.docs)
        /\ (ret.metrics.Correct = ret.metrics.Total /\ lastOp.docs # <<>>)
              => Accuracy(ret.metrics) = Frac(1, 1)
        /\ lastOp.docs = <<>> => Accuracy(ret.metrics) = Frac(0, 1)

\* An evaluation of two or more documents, each predicted as its true label.
C10_Witness ==
    /\ lastOp.op = "Evaluate"
    /\ Len(lastOp.docs) >= 2
    /\ ret.metrics.Correct = ret.metrics.Total

\* What the handlers in flight have seen of the shared classifier: none runs before the
\* server serves, each finds on entering Predict the model as it is now, and each answer
\* is the prediction of that model.
HandlersSeeServedModel ==
    \A h \in Handlers :
        /\ handlers[h].pc # "idle" => pc = "serving"
        /\ handlers[h].pc = "scoring" => handlers[h].began = nb
        /\ (handlers[h].pc = "responded" /\ handlers[h].status = 200) =>
              /\ handlers[h].began = nb
              /\ handlers[h].ended = nb
              /\ LET p == Predict(nb, handlers[h].request.body.text, handlers[h].order)
                 IN  handlers[h].label = p.label /\ handlers[h].probs = p.probs

\* C11: in serve mode every step that changes the shared classifier (LoadSnapshot at
\* startup, TrainBatch in runServerMode) is taken before the server serves and while no
\* handler runs; once serving, under any interleaving of the handlers of concurrent
\* requests, no step changes the model, and every handler sees, from entering Predict
\* to its answer, the one fully loaded and trained model.
C11_ServingModelUnchanged ==
    /\ []HandlersSeeServedModel
    /\ [][/\ pc = "serving" => nb' = nb
          /\ nb' # nb =>
                /\ pc \in {"loadSnapshot", "run"}
                /\ pc' # "serving"
                /\ \A h \in Handlers : handlers[h].pc = "idle"]_vars

\* The server serves a model that was loaded from a snapshot and then trained, with two
\* requests in flight: one inside Predict, the other already answered with a prediction.
C11_Witness ==
    /\ pc = "serving"
    /\ snapshotLoaded /\ "train" \in performed
    /\ \E h1 \in Handlers, h2 \in Handlers :
          /\ handlers[h1].pc = "scoring"
          /\ handlers[h2].pc = "responded" /\ handlers[h2].status = 200
          /\ handlers[h2].label = "positive"

====
